---- MODULE Spec2Model ----
(***************************************************************************)
(* Model of the field migration operation of the calibre annotations       *)
(* plugin: common_utils.move_annotations and the ProgressBar it drives,    *)
(* the view refresh that ends it, the helpers existing_annotations and     *)
(* get_clippings_cid, and the ReadWiser import.                            *)
(*                                                                         *)
(* A field value is either Python None or a string of markup.  The markup  *)
(* is kept in the form BeautifulSoup gives it: the sequence of its nodes   *)
(* in document order.  Three kinds of node matter to the code:             *)
(*   "user"    markup the user wrote,                                      *)
(*   "divider" <div class="comments_divider">,                             *)
(*   "uas"     <div class="user_annotations">, the annotation container;   *)
(*             id names the annotation set it renders, style the           *)
(*             appearance configuration it was rendered with.              *)
(***************************************************************************)
EXTENDS Integers, Sequences, FiniteSets, TLC

\* ---------------------------------------------------------------- bounds
NumBooks == 2
MaxCalls == 2
NumStyles == 2

Books == 1 .. NumBooks
Styles == 1 .. NumStyles

\* ------------------------------------------------------------ field names
CustomFields == {"#a", "#b"}
Fields == {"Comments"} \cup CustomFields

\* str.startswith('#')
IsCustom(f) == f \in CustomFields

\* ---------------------------------------------------------- field values
PyNone == [none |-> TRUE, html |-> << >>]
Str(nodes) == [none |-> FALSE, html |-> nodes]

UserNode(n) == [t |-> "user", id |-> n, style |-> 0]
Divider == [t |-> "divider", id |-> 0, style |-> 0]
Container(n, s) == [t |-> "uas", id |-> n, style |-> s]

\* Python truthiness of a field value: None and '' are falsy
Truthy(v) == ~v.none /\ v.html # << >>

VARIABLES
  lib,         \* db: book id -> field -> value
  appearance,  \* the appearance configuration rerender_to_html reads
  pc,          \* position of move_annotations: idle, loop, done, raised
  old, new,    \* old_destination_field, new_destination_field
  amap,        \* annotation_map, the batch of book ids
  idx,         \* position of the for loop in amap
  pbMax,       \* progressBar.maximum()
  pbValue,     \* progressBar.value()
  setCalls,    \* per book, the set_metadata calls made by the current batch
  report,      \* the count the final MessageBox states
  calls        \* migrations started so far

\* move_annotations statement by statement (the event loop it re-enters)
VARIABLES
  miHeld,      \* the Metadata object mi get_metadata returned, while it is held
  edits        \* edits made by other event handlers so far

\* the ReadWiser import and the staging tables
VARIABLES
  stack,       \* the parse_exported_highlights calls in progress, innermost
               \* last; ops is the call's staging-store operations in order
  annDb,       \* the rows of the imported_annotations table
  booksDb,     \* the rows of the imported_books table, by book id
  processed,   \* the highlights handed to add_to_annotations_db so far
  last,        \* the parse_exported_highlights call that ended last
  imports      \* imports started so far

\* updateCalibreGUIView
VARIABLES
  rc           \* t, the RC connection thread of the last updateCalibreGUIView

\* the helper functions existing_annotations and get_clippings_cid
VARIABLES
  found,       \* the last existing_annotations call and what it gave
  entries,     \* the book entries of the library: id, title, Clippings tag
  cids         \* the get_clippings_cid calls so far: title and returned cid

movVars == <<lib, appearance, pc, old, new, amap, idx, pbMax, pbValue,
             setCalls, report, calls>>
guiVars == <<miHeld, edits>>
impVars == <<stack, annDb, booksDb, processed, last, imports>>
refVars == <<rc>>
hlpVars == <<found, entries, cids>>
vars == <<movVars, guiVars, impVars, refVars, hlpVars>>

\* ------------------------------------------------------ markup operations
\* soup.find('div', cls): position of the first node of that class, 0 if none
RECURSIVE FindFrom(_, _, _)
FindFrom(nodes, cls, i) ==
  IF i > Len(nodes) THEN 0
  ELSE IF nodes[i].t = cls THEN i
  ELSE FindFrom(nodes, cls, i + 1)

\* a find that answers the first node when no node has the class
FindOrFirst(nodes, cls) ==
  IF FindFrom(nodes, cls, 1) = 0 /\ Len(nodes) > 0 THEN 1
  ELSE FindFrom(nodes, cls, 1)

Find(nodes, cls) == FindFrom(nodes, cls, 1)

\* an extract that takes the markup before the node along with it
ExtractWithPrefix(nodes, i) == SubSeq(nodes, i + 1, Len(nodes))

\* an extract that leaves the node in the soup
ExtractKeeps(nodes, i) == nodes

\* tag.extract(): the soup without the node at position i
Extract(nodes, i) ==
  [j \in 1 .. (Len(nodes) - 1) |-> IF j < i THEN nodes[j] ELSE nodes[j + 1]]

\* capture_content(uas, cid, transient_db) followed by
\* rerender_to_html(transient_db, cid): the captured annotation set rendered
\* as one container with the current appearance
Rerender(uas) == Container(uas.id, appearance)

\* the COMMENTS_DIVIDER div prepared before the loop
comments_divider == Divider

\* what one iteration of the loop decides for a book: whether set_metadata
\* is called, and the metadata object handed to it
Skip(mi) == [write |-> FALSE, mi |-> mi]
Write(mi) == [write |-> TRUE, mi |-> mi]

\* Comments -> custom
CommentsToCustom(mi, n) ==
  IF ~Truthy(mi["Comments"]) THEN Skip(mi)
  ELSE LET old_soup == mi["Comments"].html
           u == Find(old_soup, "uas")
       IN IF u = 0 THEN Skip(mi)
          ELSE LET uas == old_soup[u]
                   soup1 == Extract(old_soup, u)
                   cd == Find(soup1, "divider")
                   soup2 == IF cd # 0 THEN Extract(soup1, cd) ELSE soup1
                   new_soup == <<Rerender(uas)>>
               IN Write([mi EXCEPT !["Comments"] = Str(soup2),
                                   ![n] = Str(new_soup)])

\* Add user_annotations to Comments
AddToComments(comments, new_soup) ==
  IF comments.none THEN Str(new_soup)
  ELSE Str(comments.html \o <<comments_divider>> \o new_soup)

\* custom -> Comments
CustomToComments(mi, o) ==
  IF mi[o].none THEN Skip(mi)
  ELSE LET old_soup == mi[o].html
           u == Find(old_soup, "uas")
       IN IF u = 0 THEN Skip(mi)
          ELSE LET uas == old_soup[u]
                   soup1 == Extract(old_soup, u)
                   new_soup == <<Rerender(uas)>>
                   mi1 == [mi EXCEPT ![o] = Str(soup1)]
               IN Write([mi1 EXCEPT !["Comments"] =
                           AddToComments(mi1["Comments"], new_soup)])

\* custom -> custom
CustomToCustom(mi, o, n) ==
  IF mi[o].none THEN Skip(mi)
  ELSE LET old_soup == mi[o].html
           u == Find(old_soup, "uas")
       IN IF u = 0 THEN Skip(mi)
          ELSE LET uas == old_soup[u]
                   soup1 == Extract(old_soup, u)
                   new_soup == <<Rerender(uas)>>
                   mi1 == [mi EXCEPT ![o] = Str(soup1)]
               IN Write([mi1 EXCEPT ![n] = Str(new_soup)])

\* same field -> same field, Comments
SameComments(mi) ==
  IF ~Truthy(mi["Comments"]) THEN Skip(mi)
  ELSE LET old_soup == mi["Comments"].html
           u == Find(old_soup, "uas")
       IN IF u = 0 THEN Skip(mi)
          ELSE LET uas == old_soup[u]
                   soup1 == Extract(old_soup, u)
                   cd == Find(soup1, "divider")
                   soup2 == IF cd # 0 THEN Extract(soup1, cd) ELSE soup1
                   mi1 == [mi EXCEPT !["Comments"] = Str(soup2)]
                   new_soup == <<Rerender(uas)>>
               IN Write([mi1 EXCEPT !["Comments"] =
                           AddToComments(mi1["Comments"], new_soup)])

\* same field -> same field, custom field
SameCustom(mi, n) ==
  LET old_soup == mi[n].html
      u == Find(old_soup, "uas")
  IN IF u = 0 THEN Skip(mi)
     ELSE LET uas == old_soup[u]
              soup1 == Extract(old_soup, u)
              new_soup == <<Rerender(uas)>>
          IN Write([mi EXCEPT ![n] = Str(soup1 \o new_soup)])

\* the branch ladder of the loop body, in the order the code tests it
BranchOf(o, n) ==
  IF o = "Comments" /\ IsCustom(n) THEN "CommentsToCustom"
  ELSE IF IsCustom(o) /\ n = "Comments" THEN "CustomToComments"
  ELSE IF IsCustom(o) /\ IsCustom(n) THEN "CustomToCustom"
  ELSE IF o = n THEN (IF n = "Comments" THEN "SameComments" ELSE "SameCustom")
  ELSE "none"

ProcessBook(mi, o, n) ==
  LET b == BranchOf(o, n)
  IN CASE b = "CommentsToCustom" -> CommentsToCustom(mi, n)
       [] b = "CustomToComments" -> CustomToComments(mi, o)
       [] b = "CustomToCustom" -> CustomToCustom(mi, o, n)
       [] b = "SameComments" -> SameComments(mi)
       [] b = "SameCustom" -> SameCustom(mi, n)
       [] OTHER -> Skip(mi)

\* ------------------------------------------------------------------ Init
\* Field contents a library holds before the first migration: user text,
\* containers written by earlier imports (into an empty field or after the
\* user's text and a divider), unset fields.  Every field holds at most one
\* container.  Container and user node ids name the field they start in.
BookProfiles ==
  { [f \in Fields |->
       CASE f = "Comments" -> Str(<<UserNode(1), Divider, Container(1, 1)>>)
         [] OTHER -> PyNone],
    [f \in Fields |->
       CASE f = "Comments" -> Str(<<Container(1, 1)>>)
         [] f = "#a" -> Str(<<UserNode(2)>>)
         [] OTHER -> PyNone],
    [f \in Fields |->
       CASE f = "Comments" -> Str(<<UserNode(1)>>)
         [] f = "#a" -> Str(<<UserNode(2), Container(2, 1), UserNode(4)>>)
         [] OTHER -> Str(<<UserNode(3)>>)],
    [f \in Fields |->
       CASE f = "#a" -> Str(<<Container(2, 1)>>)
         [] OTHER -> PyNone],
    [f \in Fields |->
       CASE f = "Comments" -> Str(<<Container(1, 1)>>)
         [] f = "#a" -> Str(<<UserNode(2), Divider, Container(2, 1)>>)
         [] OTHER -> PyNone],
    [f \in Fields |->
       CASE f = "Comments" -> Str(<< >>)
         [] f = "#a" -> PyNone
         [] OTHER -> Str(<<UserNode(3)>>)] }

RECURSIVE SortedSeq(_)
SortedSeq(S) ==
  IF S = {} THEN << >>
  ELSE LET m == CHOOSE x \in S : \A y \in S : x <= y
       IN <<m>> \o SortedSeq(S \ {m})

\* the batches a caller passes: book ids in library order, no id twice
AnnotationMaps == { SortedSeq(S) : S \in SUBSET Books }

NoReport == [shown |-> FALSE, moved |-> 0, updated |-> FALSE]

\* no Metadata object is held outside an iteration of the loop
NoMi == [held |-> FALSE, v |-> [f \in Fields |-> PyNone]]

\* book ids the ReadWiser server knows
ApiBookIds == 1 .. 2
\* no row for the book in the imported_books table
NoBookRow == [present |-> FALSE, last_annotation |-> 0]
\* no parse_exported_highlights call has ended yet
NoCall == [result |-> "none"]

\* no RC thread was created yet
NoRc == [state |-> "none", done |-> FALSE, sent |-> 0, closed |-> FALSE]

\* existing_annotations was not called yet
NoCallYet == [called |-> FALSE]

\* the state before the first operation, the library's contents apart
InitRest ==
  /\ found = NoCallYet
  /\ entries = {}
  /\ cids = << >>
  /\ rc = NoRc
  /\ miHeld = NoMi
  /\ edits = 0
  /\ stack = << >>
  /\ annDb = {}
  /\ booksDb = [b \in ApiBookIds |-> NoBookRow]
  /\ processed = {}
  /\ last = NoCall
  /\ imports = 0
  /\ appearance = 1
  /\ pc = "idle"
  /\ old = "Comments"
  /\ new = "Comments"
  /\ amap = << >>
  /\ idx = 1
  /\ pbMax = 100
  /\ pbValue = 0
  /\ setCalls = [b \in Books |-> 0]
  /\ report = NoReport
  /\ calls = 0

Init ==
  /\ lib \in [Books -> BookProfiles]
  /\ InitRest

\* --------------------------------------------------------------- actions
\* the appearance dialog stores a new appearance configuration
ConfigureAppearance(s) ==
  /\ pc \in {"idle", "done", "raised"}
  /\ s # appearance
  /\ appearance' = s
  /\ UNCHANGED <<lib, pc, old, new, amap, idx, pbMax, pbValue, setCalls,
                 report, calls>>
  /\ UNCHANGED <<guiVars, impVars, refVars, hlpVars>>

\* an increment that leaves the value where it is
IncrementStuck(value) == value

\* ProgressBar.increment: progressBar.setValue(progressBar.value() + 1)
Increment(value) == value + 1

\* move_annotations is entered: progress bar set up, loop about to start
MoveAnnotations(m, o, n) ==
  /\ pc \in {"idle", "done", "raised"}
  /\ calls < MaxCalls
  /\ calls' = calls + 1
  /\ old' = o
  /\ new' = n
  /\ amap' = m
  /\ idx' = 1
  /\ pbMax' = Len(m)
  /\ pbValue' = 1
  /\ setCalls' = [b \in Books |-> 0]
  /\ report' = NoReport
  /\ pc' = "loop"
  /\ UNCHANGED <<lib, appearance>>
  /\ UNCHANGED <<guiVars, impVars, refVars, hlpVars>>

\* one iteration of the loop whose set_metadata call, if any, succeeds
LoopBody ==
  /\ pc = "loop"
  /\ idx <= Len(amap)
  /\ LET cid == amap[idx]
         r == ProcessBook(lib[cid], old, new)
     IN IF r.write
        THEN /\ lib' = [lib EXCEPT ![cid] = r.mi]
             /\ setCalls' = [setCalls EXCEPT ![cid] = @ + 1]
             /\ pbValue' = Increment(pbValue)
        ELSE UNCHANGED <<lib, setCalls, pbValue>>
  /\ idx' = idx + 1
  /\ UNCHANGED <<appearance, pc, old, new, amap, pbMax, report, calls>>
  /\ UNCHANGED <<guiVars, impVars, refVars, hlpVars>>

\* a loop that swallows the exception of set_metadata and goes on
SetMetadataFailureIgnored ==
  /\ pc = "loop"
  /\ idx <= Len(amap)
  /\ ProcessBook(lib[amap[idx]], old, new).write
  /\ setCalls' = [setCalls EXCEPT ![amap[idx]] = @ + 1]
  /\ idx' = idx + 1
  /\ UNCHANGED <<lib, appearance, pc, old, new, amap, pbMax, pbValue,
                 report, calls>>
  /\ UNCHANGED <<guiVars, impVars, refVars, hlpVars>>

\* one iteration of the loop whose set_metadata call raises: the exception
\* leaves move_annotations
SetMetadataRaises ==
  /\ pc = "loop"
  /\ idx <= Len(amap)
  /\ ProcessBook(lib[amap[idx]], old, new).write
  /\ setCalls' = [setCalls EXCEPT ![amap[idx]] = @ + 1]
  /\ pc' = "raised"
  /\ UNCHANGED <<lib, appearance, old, new, amap, idx, pbMax, pbValue,
                 report, calls>>
  /\ UNCHANGED <<guiVars, impVars, refVars, hlpVars>>

\* the loop is over: the progress bar is hidden and the MessageBox reports
Report ==
  /\ pc = "loop"
  /\ idx > Len(amap)
  /\ report' = [shown |-> TRUE, moved |-> Len(amap), updated |-> (old = new)]
  /\ pc' = "done"
  /\ UNCHANGED <<lib, appearance, old, new, amap, idx, pbMax, pbValue,
                 setCalls, calls>>
  /\ UNCHANGED <<guiVars, impVars, refVars, hlpVars>>

Next ==
  \/ \E s \in Styles : ConfigureAppearance(s)
  \/ \E m \in AnnotationMaps, o \in Fields, n \in Fields :
       MoveAnnotations(m, o, n)
  \/ LoopBody
  \/ SetMetadataRaises
  \/ Report

Spec == Init /\ [][Next]_vars

TypeOK ==
  /\ pc \in {"idle", "loop", "got", "events", "labelled", "done", "raised",
            "view_check", "view_sleep"}
  /\ old \in Fields /\ new \in Fields
  /\ amap \in AnnotationMaps
  /\ idx \in 1 .. (Len(amap) + 1)
  /\ appearance \in Styles
  /\ calls \in 0 .. MaxCalls

\* ------------------------------------ move_annotations, statement by statement
MaxEdits == 1

\* mi = db.get_metadata(cid, index_is_id=True)
GetMetadata ==
  /\ pc = "loop"
  /\ idx <= Len(amap)
  /\ miHeld' = [held |-> TRUE, v |-> lib[amap[idx]]]
  /\ pc' = "got"
  /\ UNCHANGED <<lib, appearance, old, new, amap, idx, pbMax, pbValue,
                 setCalls, report, calls, edits, impVars, refVars, hlpVars>>

\* the same-field branch calls pb.set_label, whose refresh() runs
\* Application.processEvents(): the event loop dispatches pending events
SetLabel ==
  /\ pc = "got"
  /\ BranchOf(old, new) \in {"SameComments", "SameCustom"}
  /\ pc' = "events"
  /\ UNCHANGED <<lib, appearance, old, new, amap, idx, pbMax, pbValue,
                 setCalls, report, calls, miHeld, edits, impVars, refVars, hlpVars>>

\* inside processEvents another handler (the metadata editor) saves a change
\* to a field of a book
EventHandlerEdits(b, f) ==
  /\ pc = "events"
  /\ edits < MaxEdits
  /\ edits' = edits + 1
  /\ lib' = [lib EXCEPT ![b][f] = Str(@.html \o <<UserNode(5)>>)]
  /\ UNCHANGED <<appearance, pc, old, new, amap, idx, pbMax, pbValue,
                 setCalls, report, calls, miHeld, impVars, refVars, hlpVars>>

\* processEvents returns into set_label
EventsDone ==
  /\ pc = "events"
  /\ pc' = "labelled"
  /\ UNCHANGED <<lib, appearance, old, new, amap, idx, pbMax, pbValue,
                 setCalls, report, calls, miHeld, edits, impVars, refVars, hlpVars>>

\* the rest of the iteration: the branch works on mi and, when it found a
\* container, hands mi to set_metadata and increments the progress bar
FinishIteration ==
  /\ \/ pc = "got" /\ BranchOf(old, new) \notin {"SameComments", "SameCustom"}
     \/ pc = "labelled"
  /\ LET cid == amap[idx]
         r == ProcessBook(miHeld.v, old, new)
     IN IF r.write
        THEN /\ lib' = [lib EXCEPT ![cid] = r.mi]
             /\ setCalls' = [setCalls EXCEPT ![cid] = @ + 1]
             /\ pbValue' = Increment(pbValue)
        ELSE UNCHANGED <<lib, setCalls, pbValue>>
  /\ idx' = idx + 1
  /\ miHeld' = NoMi
  /\ pc' = "loop"
  /\ UNCHANGED <<appearance, old, new, amap, pbMax, report, calls, edits,
                 impVars, refVars, hlpVars>>

NextGui ==
  \/ \E s \in Styles : ConfigureAppearance(s)
  \/ \E m \in AnnotationMaps, o \in Fields, n \in Fields :
       MoveAnnotations(m, o, n)
  \/ GetMetadata
  \/ SetLabel
  \/ \E b \in Books, f \in Fields : EventHandlerEdits(b, f)
  \/ EventsDone
  \/ FinishIteration
  \/ Report

SpecGui == Init /\ [][NextGui]_vars

\* ------------------------------------------------------ ReadWiser import
MaxImports == 2

\* a highlight of the API response: id 0 stands for a highlight without the
\* 'id' key; the timestamp is the string the server sent
Highlight(i, t, x) == [id |-> i, timestamp |-> t, text |-> x]
ApiBook(b, hs) == [id |-> b, highlights |-> hs]

\* data['books'] of the responses the server gives
Responses ==
  { << >>,
    <<ApiBook(1, <<Highlight(1, "T1", "x"), Highlight(2, "T2", "y")>>)>>,
    <<ApiBook(1, <<Highlight(1, "T2", "x"), Highlight(2, "T1", "y")>>)>>,
    <<ApiBook(1, <<Highlight(1, "T3", "x"), Highlight(1, "T1", "y")>>)>>,
    <<ApiBook(1, <<Highlight(1, "T2", "y")>>),
      ApiBook(2, <<Highlight(3, "T1", "x")>>)>>,
    <<ApiBook(1, <<Highlight(1, "T1", "x"), Highlight(2, "bad", "y")>>)>>,
    <<ApiBook(2, <<Highlight(0, "T2", "x")>>)>> }

\* datetime.strptime(timestamp, "%Y-%m-%dT%H:%M:%S") and time.mktime: the
\* seconds of a well-formed timestamp; strptime raises on any other string
WellFormed(t) == t \in {"T1", "T2", "T3"}
Seconds(t) ==
  CASE t = "T1" -> 100
    [] t = "T2" -> 200
    [] t = "T3" -> 300

\* an AnnotationStruct that carries no last_modification
MakeAnnotationNoTimestamp(book_id, h) ==
  [annotation_id |-> h.id, book_id |-> book_id, last_modification |-> 0,
   highlight_text |-> h.text]

\* the AnnotationStruct built from a highlight
MakeAnnotation(book_id, h) ==
  [annotation_id |-> h.id, book_id |-> book_id,
   last_modification |-> Seconds(h.timestamp), highlight_text |-> h.text]

\* the fingerprint of an annotation: its annotation_id when it has one, else
\* its book and content
Fingerprint(a) ==
  IF a.annotation_id # 0 THEN <<"id", a.annotation_id, 0, "">>
  ELSE <<"content", 0, a.book_id, a.highlight_text>>

\* add_to_annotations_db: upsert by fingerprint, the stored row is replaced
\* only by a row whose last_modification is greater or equal
AddToAnnotationsDb(db, a) ==
  IF \E r \in db : Fingerprint(r) = Fingerprint(a)
  THEN LET r == CHOOSE x \in db : Fingerprint(x) = Fingerprint(a)
       IN IF a.last_modification >= r.last_modification
          THEN (db \ {r}) \cup {a}
          ELSE db
  ELSE db \cup {a}

\* update_book_last_annotation: advances last_annotation of the book's row;
\* there is nothing to advance when the table has no row for the book
UpdateBookLastAnnotation(db, timestamp, book_id) ==
  IF db[book_id].present /\ timestamp > db[book_id].last_annotation
  THEN [db EXCEPT ![book_id].last_annotation = timestamp]
  ELSE db

\* add_to_books_db: the row of the book becomes the BookStruct, whose
\* last_annotation the import leaves at None (0)
AddToBooksDb(db, book_struct) ==
  [db EXCEPT ![book_struct.book_id] =
     [present |-> TRUE, last_annotation |-> book_struct.last_annotation]]

\* BookStruct() as populated for a book of the response
MakeBookStruct(book) == [book_id |-> book.id, last_annotation |-> 0]

Top == stack[Len(stack)]
Pop(result) ==
  /\ last' = [Top EXCEPT !.result = result]
  /\ stack' = SubSeq(stack, 1, Len(stack) - 1)
SetTop(f) == stack' = [stack EXCEPT ![Len(stack)] = f]
CurBook(f) == f.data[f.bi]

\* parse_exported_highlights is entered, from the idle GUI or from an event
\* dispatched while an import in progress is inside pb.increment; sel says
\* whether exactly one library book is selected, ok whether the API call
\* will succeed, resp what the server answers
ParseExportedHighlights(sel, raw, ok, resp) ==
  /\ imports < MaxImports
  /\ IF stack = << >> THEN TRUE ELSE Top.pc = "events"
  /\ imports' = imports + 1
  /\ stack' = Append(stack,
       [sid |-> imports + 1, sel |-> sel, raw |-> raw, apiOk |-> ok,
        data |-> resp, pc |-> "api", bi |-> 0, hi |-> 0, ts |-> 0,
        apiCalls |-> 0, staged |-> 0, bookAdds |-> 0, commits |-> 0,
        msg |-> FALSE, result |-> "none",
        ops |-> <<"create_annotations_table", "create_books_table">>])
  /\ UNCHANGED <<annDb, booksDb, processed, last, movVars, guiVars, refVars, hlpVars>>

\* a call_api that tries a second time before it gives up
CallApiRetries ==
  /\ stack # << >>
  /\ Top.pc = "api"
  /\ ~Top.apiOk
  /\ last' = [Top EXCEPT !.result = "api_error", !.apiCalls = @ + 2]
  /\ stack' = SubSeq(stack, 1, Len(stack) - 1)
  /\ UNCHANGED <<annDb, booksDb, processed, imports, movVars, guiVars, refVars, hlpVars>>

\* call_api raises (urlopen or json.loads): nothing catches it
CallApiRaises ==
  /\ stack # << >>
  /\ Top.pc = "api"
  /\ ~Top.apiOk
  /\ last' = [Top EXCEPT !.result = "api_error", !.apiCalls = @ + 1]
  /\ stack' = SubSeq(stack, 1, Len(stack) - 1)
  /\ UNCHANGED <<annDb, booksDb, processed, imports, movVars, guiVars, refVars, hlpVars>>

\* call_api returns data; an empty data['books'] shows 'No annotations
\* found', whose text reads selected_book.authors[0]
CallApiReturns ==
  /\ stack # << >>
  /\ Top.pc = "api"
  /\ Top.apiOk
  /\ IF Top.data = << >> /\ ~Top.sel
     THEN /\ last' = [Top EXCEPT !.result = "AttributeError", !.apiCalls = @ + 1]
          /\ stack' = SubSeq(stack, 1, Len(stack) - 1)
     ELSE /\ SetTop([Top EXCEPT !.apiCalls = @ + 1, !.pc = "books",
                                !.msg = (Top.data = << >>)])
          /\ UNCHANGED last
  /\ UNCHANGED <<annDb, booksDb, processed, imports, movVars, guiVars, refVars, hlpVars>>

\* for book in data['books']: populate a BookStruct
BeginBook ==
  /\ stack # << >>
  /\ Top.pc = "books"
  /\ Top.bi < Len(Top.data)
  /\ SetTop([Top EXCEPT !.bi = @ + 1, !.hi = 0, !.pc = "highlights"])
  /\ UNCHANGED <<annDb, booksDb, processed, last, imports, movVars, guiVars, refVars, hlpVars>>

\* strptime raises on the highlight's timestamp
TimestampRaises ==
  /\ stack # << >>
  /\ Top.pc = "highlights"
  /\ Top.hi < Len(CurBook(Top).highlights)
  /\ ~WellFormed(CurBook(Top).highlights[Top.hi + 1].timestamp)
  /\ Pop("ValueError")
  /\ UNCHANGED <<annDb, booksDb, processed, imports, movVars, guiVars, refVars, hlpVars>>

\* for highlight in book['highlights']: the annotation is built and added,
\* then pb.increment() runs processEvents
StageHighlight ==
  /\ stack # << >>
  /\ Top.pc = "highlights"
  /\ Top.hi < Len(CurBook(Top).highlights)
  /\ LET h == CurBook(Top).highlights[Top.hi + 1]
     IN /\ WellFormed(h.timestamp)
        /\ annDb' = AddToAnnotationsDb(annDb, MakeAnnotation(CurBook(Top).id, h))
        /\ processed' = processed \cup {[book_id |-> CurBook(Top).id, h |-> h]}
        /\ SetTop([Top EXCEPT !.hi = @ + 1, !.ts = Seconds(h.timestamp),
                              !.staged = @ + 1, !.pc = "events",
                              !.ops = Append(@, "add_to_annotations_db")])
  /\ UNCHANGED <<booksDb, last, imports, movVars, guiVars, refVars, hlpVars>>

\* processEvents is back: update_book_last_annotation
UpdateLastAnnotation ==
  /\ stack # << >>
  /\ Top.pc = "events"
  /\ booksDb' = UpdateBookLastAnnotation(booksDb, Top.ts, CurBook(Top).id)
  /\ SetTop([Top EXCEPT !.pc = "highlights",
                        !.ops = Append(@, "update_book_last_annotation")])
  /\ UNCHANGED <<annDb, processed, last, imports, movVars, guiVars, refVars, hlpVars>>

\* the highlights of the book are done: add_to_books_db
EndBook ==
  /\ stack # << >>
  /\ Top.pc = "highlights"
  /\ Top.hi = Len(CurBook(Top).highlights)
  /\ booksDb' = AddToBooksDb(booksDb, MakeBookStruct(CurBook(Top)))
  /\ SetTop([Top EXCEPT !.bookAdds = @ + 1, !.pc = "books",
                        !.ops = Append(@, "add_to_books_db")])
  /\ UNCHANGED <<annDb, processed, last, imports, movVars, guiVars, refVars, hlpVars>>

\* an end of the import that commits before it updates the timestamps
FinishCommitsFirst ==
  /\ stack # << >>
  /\ Top.pc = "books"
  /\ Top.bi = Len(Top.data)
  /\ last' = [Top EXCEPT !.result = "True", !.commits = @ + 1,
                         !.ops = @ \o <<"commit",
                                        "update_timestamp_annotations",
                                        "update_timestamp_books">>]
  /\ stack' = SubSeq(stack, 1, Len(stack) - 1)
  /\ UNCHANGED <<annDb, booksDb, processed, imports, movVars, guiVars, refVars, hlpVars>>

\* the books are done: update_timestamp twice, commit, return True
Finish ==
  /\ stack # << >>
  /\ Top.pc = "books"
  /\ Top.bi = Len(Top.data)
  /\ last' = [Top EXCEPT !.result = "True", !.commits = @ + 1,
                         !.ops = @ \o <<"update_timestamp_annotations",
                                        "update_timestamp_books",
                                        "commit">>]
  /\ stack' = SubSeq(stack, 1, Len(stack) - 1)
  /\ UNCHANGED <<annDb, booksDb, processed, imports, movVars, guiVars, refVars, hlpVars>>

NextImport ==
  \/ \E sel \in BOOLEAN, raw \in {"all", "text"}, ok \in BOOLEAN,
        resp \in Responses : ParseExportedHighlights(sel, raw, ok, resp)
  \/ CallApiRaises
  \/ CallApiReturns
  \/ BeginBook
  \/ TimestampRaises
  \/ StageHighlight
  \/ UpdateLastAnnotation
  \/ EndBook
  \/ Finish

\* the import does not look at the library fields: one library is enough
InitImport ==
  /\ lib = [b \in Books |-> [f \in Fields |-> PyNone]]
  /\ InitRest

SpecImport == InitImport /\ [][NextImport]_vars

\* -------------------------------------------------- updateCalibreGUIView
\* move_annotations calls updateCalibreGUIView after its report:
\* t = RC(print_error=False); t.start(); sleep(0.5)
UpdateCalibreGUIView ==
  /\ pc = "done"
  /\ rc' = [NoRc EXCEPT !.state = "started"]
  /\ pc' = "view_check"
  /\ UNCHANGED <<lib, appearance, old, new, amap, idx, pbMax, pbValue,
                 setCalls, report, calls>>
  /\ UNCHANGED <<guiVars, impVars, hlpVars>>

\* the RC thread connects to the listener of the GUI and reports done
RcConnects ==
  /\ rc.state = "started"
  /\ rc' = [rc EXCEPT !.state = "connected", !.done = TRUE]
  /\ UNCHANGED <<movVars, guiVars, impVars, hlpVars>>

\* the RC thread ends without a connection: it never reports done
RcFails ==
  /\ rc.state = "started"
  /\ rc' = [rc EXCEPT !.state = "failed"]
  /\ UNCHANGED <<movVars, guiVars, impVars, hlpVars>>

\* if t.done: t.conn.send('refreshdb:'); t.conn.close(); break
SendRefresh ==
  /\ pc = "view_check"
  /\ rc.done
  /\ rc' = [rc EXCEPT !.sent = @ + 1, !.closed = TRUE]
  /\ pc' = "idle"
  /\ UNCHANGED <<lib, appearance, old, new, amap, idx, pbMax, pbValue,
                 setCalls, report, calls>>
  /\ UNCHANGED <<guiVars, impVars, hlpVars>>

\* t.done is false: sleep(0.5)
Sleep ==
  /\ pc = "view_check"
  /\ ~rc.done
  /\ pc' = "view_sleep"
  /\ UNCHANGED <<lib, appearance, old, new, amap, idx, pbMax, pbValue,
                 setCalls, report, calls>>
  /\ UNCHANGED <<guiVars, impVars, refVars, hlpVars>>

\* sleep returns: the next iteration of while True
Wake ==
  /\ pc = "view_sleep"
  /\ pc' = "view_check"
  /\ UNCHANGED <<lib, appearance, old, new, amap, idx, pbMax, pbValue,
                 setCalls, report, calls>>
  /\ UNCHANGED <<guiVars, impVars, refVars, hlpVars>>

NextRefresh ==
  \/ \E s \in Styles : pc # "done" /\ ConfigureAppearance(s)
  \/ \E m \in AnnotationMaps, o \in Fields, n \in Fields :
       pc # "done" /\ MoveAnnotations(m, o, n)
  \/ LoopBody
  \/ SetMetadataRaises
  \/ Report
  \/ UpdateCalibreGUIView
  \/ RcConnects
  \/ RcFails
  \/ SendRefresh
  \/ Sleep
  \/ Wake

\* the GUI thread goes on while it has a statement to run, and a started
\* thread runs
SpecRefresh ==
  /\ Init
  /\ [][NextRefresh]_vars
  /\ WF_vars(UpdateCalibreGUIView)
  /\ WF_vars(RcConnects \/ RcFails)
  /\ WF_vars(SendRefresh)
  /\ WF_vars(Sleep)
  /\ WF_vars(Wake)

\* ------------------------------------------------------- helper functions
\* the loop of existing_annotations over db.data.iterall(), from book i on,
\* with the ids appended so far; accepts says whether BeautifulSoup takes
\* None for markup (it gives an empty soup) or raises TypeError on it
RECURSIVE ExistingLoop(_, _, _, _, _)
ExistingLoop(i, field, return_all, accepts, annotation_map) ==
  IF i > NumBooks THEN [raised |-> FALSE, none |-> FALSE, map |-> annotation_map]
  ELSE LET v == lib[i][field]
       IN IF field = "Comments" /\ ~Truthy(v)
          THEN ExistingLoop(i + 1, field, return_all, accepts, annotation_map)
          ELSE IF v.none /\ ~accepts
          THEN [raised |-> TRUE, none |-> FALSE, map |-> annotation_map]
          ELSE IF Find(v.html, "uas") # 0
          THEN IF return_all
               THEN ExistingLoop(i + 1, field, return_all, accepts,
                                 Append(annotation_map, i))
               ELSE [raised |-> FALSE, none |-> FALSE,
                     map |-> Append(annotation_map, i)]
          ELSE ExistingLoop(i + 1, field, return_all, accepts, annotation_map)

\* existing_annotations(parent, field, return_all); the return statement is
\* inside 'if field:', so an empty field name gives None
ExistingAnnotations(field, return_all, accepts) ==
  /\ found' = [called |-> TRUE, field |-> field, return_all |-> return_all,
               result |-> IF field = ""
                          THEN [raised |-> FALSE, none |-> TRUE, map |-> << >>]
                          ELSE ExistingLoop(1, field, return_all, accepts, << >>)]
  /\ UNCHANGED <<entries, cids>>
  /\ UNCHANGED <<movVars, guiVars, impVars, refVars>>

MaxLookups == 3
MaxUserBooks == 2
Titles == {"My Clippings", "Kindle Clippings"}

\* the user adds a book to the library, tagged 'Clippings' or not; the
\* library holds no two Clippings books of one title
UserAddsBook(title, tagged) ==
  /\ Cardinality(entries) < MaxUserBooks
  /\ cids = << >>
  /\ tagged => ~\E e \in entries : e.title = title /\ e.clippings
  /\ entries' = entries \cup {[id |-> Cardinality(entries) + 1, title |-> title,
                               clippings |-> tagged]}
  /\ UNCHANGED <<found, cids>>
  /\ UNCHANGED <<movVars, guiVars, impVars, refVars>>

\* db.data.parse('title:"%s" and tag:Clippings' % title): the matching ids
Parse(title) == {e.id : e \in {x \in entries : x.title = title /\ x.clippings}}

\* create_book_entry(mi, cover=None, add_duplicates=False, force_id=None)
\* with mi.title = title, mi.tags = ['Clippings']: without add_duplicates
\* no entry is made when the library has a book of that title, and None (0)
\* is returned
CreateBookEntry(title) ==
  IF \E e \in entries : e.title = title
  THEN [cid |-> 0, entries |-> entries]
  ELSE LET id == Cardinality(entries) + 1
       IN [cid |-> id,
           entries |-> entries \cup {[id |-> id, title |-> title,
                                      clippings |-> TRUE]}]

\* get_clippings_cid(parent, title): element [0] of the matches, and on any
\* exception (no match: IndexError) a new entry
GetClippingsCid(title) ==
  /\ Len(cids) < MaxLookups
  /\ IF Parse(title) # {}
     THEN /\ \E cid \in Parse(title) : cids' = Append(cids, [title |-> title, cid |-> cid])
          /\ UNCHANGED entries
     ELSE /\ cids' = Append(cids, [title |-> title, cid |-> CreateBookEntry(title).cid])
          /\ entries' = CreateBookEntry(title).entries
  /\ UNCHANGED found
  /\ UNCHANGED <<movVars, guiVars, impVars, refVars>>

NextHelpers ==
  \/ \E field \in Fields \cup {""}, return_all \in BOOLEAN, accepts \in BOOLEAN :
       ExistingAnnotations(field, return_all, accepts)
  \/ \E title \in Titles, tagged \in BOOLEAN : UserAddsBook(title, tagged)
  \/ \E title \in Titles : GetClippingsCid(title)

SpecHelpers == Init /\ [][NextHelpers]_vars

\* ------------------------------------------------- vocabulary of the claims
IsUser(x) == x.t = "user"
IsDivider(x) == x.t = "divider"
IsContainer(x) == x.t = "uas"

UserNodes(v) == SelectSeq(v.html, IsUser)
NumContainers(v) == Len(SelectSeq(v.html, IsContainer))
NumDividers(v) == Len(SelectSeq(v.html, IsDivider))
HasContainer(v) == NumContainers(v) > 0
ContainerIds == 1 .. 3
HoldsSet(v, k) == \E i \in 1 .. Len(v.html) : IsContainer(v.html[i]) /\ v.html[i].id = k

\* the id of the first container of a field value that has one
FirstSet(v) == v.html[Find(v.html, "uas")].id

\* the field value minus its first container and the divider right before it
Residual(v) ==
  LET u == Find(v.html, "uas")
  IN IF u = 0 THEN v.html
     ELSE IF u > 1 /\ IsDivider(v.html[u - 1])
          THEN Extract(Extract(v.html, u), u - 1)
          ELSE Extract(v.html, u)

\* the book the loop is at
Cur == amap[idx]
\* this step is a loop iteration whose set_metadata call succeeded
Wrote == pc = "loop" /\ pc' = "loop" /\ setCalls' # setCalls
Modified == {b \in Books : setCalls[b] > 0}

\* C1: re-rendering in place (old = new, Comments or custom) leaves every
\* modified book's field holding its previous user content, unchanged and in
\* order, followed by the freshly rendered container.
C1_InPlaceKeepsResidual ==
  [][(Wrote /\ old = new) =>
       LET before == lib[Cur][new]
           after == lib'[Cur][new]
       IN /\ UserNodes(after) = UserNodes(before)
          /\ after.html # << >>
          /\ after.html[Len(after.html)] = Container(FirstSet(before), appearance)]_vars

\* C2: a migration from A to a different field B keeps in B the user content
\* B held before; the container is appended, B is not replaced.
C2_DestinationContentKept ==
  [][(Wrote /\ old # new) =>
       LET before == lib[Cur][new]
           after == lib'[Cur][new]
       IN /\ UserNodes(after) = UserNodes(before)
          /\ HoldsSet(after, FirstSet(lib[Cur][old]))]_vars

\* C3: a migration from A to a different field B writes back to A its
\* previous content without the (first) container: all the user content is
\* kept in its order and no other container is dropped.
C3_SourceStripped ==
  [][(Wrote /\ old # new) =>
       LET before == lib[Cur][old]
           after == lib'[Cur][old]
       IN /\ UserNodes(after) = UserNodes(before)
          /\ NumContainers(after) = NumContainers(before) - 1
          /\ ~HoldsSet(after, FirstSet(before))
          /\ SelectSeq(after.html, IsContainer) =
               Tail(SelectSeq(before.html, IsContainer))]_vars

C3_Witness ==
  /\ pc = "done"
  /\ old # new
  /\ \E b \in Modified :
       /\ Len(UserNodes(lib[b][old])) = 2
       /\ ~HasContainer(lib[b][old])
       /\ HasContainer(lib[b][new])

\* C4: the final report states the number of books modified (the books whose
\* source field held a container), not only the size of the batch.
C4_ReportCounts ==
  report.shown => report.moved = Cardinality(Modified)

\* C5: whenever a migration writes the container into a destination field,
\* the field becomes residual + divider + container if the destination's
\* residual is non-empty and the container alone if it is empty.
C5_DividerRule ==
  [][Wrote =>
       LET residual == IF lib[Cur][new].none THEN << >> ELSE Residual(lib[Cur][new])
           fresh == Container(FirstSet(lib[Cur][old]), appearance)
       IN lib'[Cur][new] =
            IF residual # << >>
            THEN Str(residual \o <<Divider>> \o <<fresh>>)
            ELSE Str(<<fresh>>)]_vars

\* C6: an in-place re-render leaves the field at a fixed point: running it
\* again with the same appearance gives the same content, which holds
\* exactly one container and at most one divider.
C6_InPlaceFixedPoint ==
  [][(Wrote /\ old = new) =>
       LET after == lib'[Cur][new]
           again == ProcessBook(lib'[Cur], old, new).mi[new]
       IN /\ again = after
          /\ NumContainers(after) = 1
          /\ NumDividers(after) <= 1]_vars

\* C7: every field of every book holds at most one annotation container.
C7_AtMostOneContainer ==
  \A b \in Books, f \in Fields : NumContainers(lib[b][f]) <= 1

\* C8: when a migration removes the container from a source field it removes
\* the divider right before it too, and no field loses a divider without
\* losing its container.
C8_DividerFollowsContainer ==
  [][(Wrote /\ old # new) =>
       LET before == lib[Cur][old]
           after == lib'[Cur][old]
           u == Find(before.html, "uas")
       IN /\ (u > 1 /\ IsDivider(before.html[u - 1]))
               => NumDividers(after) = NumDividers(before) - 1
          /\ \A f \in Fields :
               NumDividers(lib'[Cur][f]) < NumDividers(lib[Cur][f])
                 => \E k \in ContainerIds :
                      HoldsSet(lib[Cur][f], k) /\ ~HoldsSet(lib'[Cur][f], k)]_vars

\* C9: set_metadata is called at most once per book of a batch and carries
\* both fields, so in every step of the loop (a failed write included) an
\* annotation set that was in the source field and not in the destination
\* is afterwards in exactly one of the two fields.
C9_OneWriteBothFields ==
  [][pc = "loop" =>
       \A b \in Books :
         /\ setCalls'[b] <= 1
         /\ \A k \in ContainerIds :
              (HoldsSet(lib[b][old], k) /\ (old # new => ~HoldsSet(lib[b][new], k)))
                => IF old = new THEN HoldsSet(lib'[b][new], k)
                   ELSE HoldsSet(lib'[b][old], k) # HoldsSet(lib'[b][new], k)]_vars

C9_Witness ==
  /\ pc = "raised"
  /\ old # new
  /\ idx = 2
  /\ setCalls[amap[1]] = 1
  /\ setCalls[amap[2]] = 1
  /\ \E k \in ContainerIds :
       HoldsSet(lib[amap[1]][new], k) /\ ~HoldsSet(lib[amap[1]][old], k)
  /\ \E k \in ContainerIds :
       HoldsSet(lib[amap[2]][old], k) /\ ~HoldsSet(lib[amap[2]][new], k)

\* C10: a book of the batch whose source field holds no container is left
\* unchanged: the iteration makes no set_metadata call and changes no field.
C10_NoContainerNoChange ==
  [][(pc = "loop" /\ idx <= Len(amap) /\ ~HasContainer(lib[Cur][old])) =>
       /\ lib' = lib
       /\ setCalls' = setCalls
       /\ pc' = "loop"
       /\ idx' = idx + 1]_vars

C10_Witness ==
  /\ pc = "done"
  /\ \E i \in 1 .. Len(amap) :
       /\ setCalls[amap[i]] = 0
       /\ ~HasContainer(lib[amap[i]][old])
       /\ \E f \in Fields : Truthy(lib[amap[i]][f])
  /\ \E i \in 1 .. Len(amap) :
       /\ setCalls[amap[i]] = 0
       /\ lib[amap[i]][old].none

\* the books of the batch whose set_metadata call has returned
Completed ==
  {b \in Books : setCalls[b] > 0 /\ ~(pc = "raised" /\ b = amap[idx])}
\* this step is a loop iteration whose set_metadata call did not return:
\* the call was made and the increment after it was not reached
FailedWrite == pc = "loop" /\ setCalls' # setCalls /\ pbValue' = pbValue

\* C11: increment() is called exactly once for each book written, after its
\* set_metadata call has returned, and never for a skipped book: the number
\* of increments is the number of completed set_metadata calls.
C11_IncrementPerWrite ==
  [][pc = "loop" =>
       /\ pbValue' - pbValue = (IF pc' = "loop" /\ setCalls' # setCalls THEN 1 ELSE 0)
       /\ pbValue' - 1 = Cardinality(Completed')]_vars

C11_Witness ==
  /\ pc = "done"
  /\ Len(amap) = 2
  /\ pbValue = 2
  /\ \E b \in Books : setCalls[b] = 1
  /\ \E b \in Books : setCalls[b] = 0

\* C12: when set_metadata fails for a book, move_annotations raises there
\* and rolls nothing back: the library is as the earlier iterations left
\* it, and no later book of the batch is touched.
C12_RaiseNoRollback ==
  [][/\ FailedWrite => (pc' = "raised" /\ lib' = lib /\ idx' = idx)
     /\ pc = "raised" =>
          /\ lib' = lib
          /\ pc' # "done"
          /\ pc' = "loop" => calls' = calls + 1]_vars

C12_Witness ==
  /\ pc = "raised"
  /\ old = "Comments" /\ new = "Comments"
  /\ appearance = 2
  /\ idx = 2
  /\ HoldsSet(lib[amap[1]]["Comments"], 1)
  /\ \A i \in 1 .. Len(lib[amap[1]]["Comments"].html) :
       IsContainer(lib[amap[1]]["Comments"].html[i])
         => lib[amap[1]]["Comments"].html[i].style = 2
  /\ \E i \in 1 .. Len(lib[amap[2]]["Comments"].html) :
       /\ IsContainer(lib[amap[2]]["Comments"].html[i])
       /\ lib[amap[2]]["Comments"].html[i].style = 1

\* C13: a set_metadata failure is recorded for its book and the loop goes
\* on with the remaining books of the batch, up to the final summary.
C13_FailureIsolated ==
  [][FailedWrite => (pc' = "loop" /\ idx' = idx + 1)]_vars

\* the case of the branch ladder that the comments name for a pair of fields
CaseNamed(o, n) ==
  IF o = n THEN (IF n = "Comments" THEN "SameComments" ELSE "SameCustom")
  ELSE IF o = "Comments" THEN "CommentsToCustom"
  ELSE IF n = "Comments" THEN "CustomToComments"
  ELSE "CustomToCustom"

\* C19: every book is handled by the branch whose comment names the pair
\* (old, new); old = new, a custom field, runs 'same field -> same field'.
C19_BranchMatchesCase ==
  pc = "loop" => BranchOf(old, new) = CaseNamed(old, new)

\* C17: between get_metadata and set_metadata of a book no other event
\* handler runs: while the Metadata object is held, the book's fields in the
\* library are still the ones that were read.
C17_NoHandlerBetweenReadAndWrite ==
  miHeld.held => lib[amap[idx]] = miHeld.v

\* ---------------------------------------- vocabulary of the import claims
MaxOf(S) == CHOOSE x \in S : \A y \in S : y <= x
AnnotationsOf(b) == {r \in annDb : r.book_id = b}
\* an import in progress is inside the highlight loop of book b
InHighlightsOf(b) ==
  \E i \in 1 .. Len(stack) :
    stack[i].pc \in {"highlights", "events"} /\ CurBook(stack[i]).id = b
\* the book ids a call in progress has staged highlights of
Touched(f) ==
  {f.data[j].id : j \in {k \in 1 .. f.bi : k < f.bi \/ f.hi > 0}}
RawFingerprint(p) ==
  IF p.h.id # 0 THEN <<"id", p.h.id, 0, "">>
  ELSE <<"content", 0, p.book_id, p.h.text>>

\* C14: once the import has staged a book and its highlights, the staged
\* book row's last_annotation is the greatest last_modification of the
\* book's staged annotations.
C14_LastAnnotationIsMax ==
  \A b \in ApiBookIds :
    (booksDb[b].present /\ ~InHighlightsOf(b) /\ AnnotationsOf(b) # {})
      => booksDb[b].last_annotation =
           MaxOf({r.last_modification : r \in AnnotationsOf(b)})

C16_ApiFailurePropagates ==
  last.result = "api_error" =>
    /\ last.apiCalls = 1
    /\ last.staged = 0
    /\ last.bookAdds = 0
    /\ last.commits = 0
    /\ last.pc = "api"

C16_Witness ==
  /\ last.result = "api_error"
  /\ imports = 2
  /\ annDb # {}
  /\ stack = << >>

\* C18: the upserts of two import sessions for one book id are never
\* interleaved: no session stages a highlight of a book that another
\* session in progress has staged highlights of and not committed.
C18_NoInterleavedUpserts ==
  [][(Len(stack) > 1 /\ Len(stack') = Len(stack)
        /\ stack'[Len(stack)].staged = Top.staged + 1) =>
       \A i \in 1 .. (Len(stack) - 1) : CurBook(Top).id \notin Touched(stack[i])]_vars

\* C20: for every response with an empty 'books' list, whatever the
\* selection and raw, parse_exported_highlights shows the message, stages
\* nothing, commits and returns True.
C20_EmptyResponseReturnsTrue ==
  (last.result # "none" /\ last.apiOk /\ last.data = << >>) =>
    /\ last.result = "True"
    /\ last.msg
    /\ last.staged = 0
    /\ last.commits = 1

\* this step is the update_book_last_annotation call of the innermost import
UpdatesLastAnnotation ==
  /\ stack # << >>
  /\ Top.pc = "events"
  /\ Len(stack') = Len(stack)
  /\ stack'[Len(stack)].pc = "highlights"
\* this step is the commit of the innermost import
Commits ==
  /\ stack # << >>
  /\ Len(stack') = Len(stack) - 1
  /\ last'.commits = 1

\* C21: update_book_last_annotation is called for a book only when the books
\* table already holds the book's record, and at commit every book the
\* session staged annotations of has a record staged by the session.
C21_BookRecordBeforeLastAnnotation ==
  [][/\ UpdatesLastAnnotation => booksDb[CurBook(Top).id].present
     /\ Commits =>
          /\ Top.bookAdds = Len(Top.data)
          /\ \A b \in Touched(Top) : booksDb[b].present]_vars

IsCommit(op) == op = "commit"
IsAddAnnotation(op) == op = "add_to_annotations_db"
IsAddBook(op) == op = "add_to_books_db"
RECURSIVE NumHighlights(_)
NumHighlights(data) ==
  IF data = << >> THEN 0
  ELSE Len(Head(data).highlights) + NumHighlights(Tail(data))

\* C22: an import that runs to its end commits exactly once, as its last
\* staging-store operation, after every book and annotation of the response
\* was added and update_timestamp was called on both tables; an import that
\* raises in a highlight never commits, and the annotations it added before
\* stay added.
C22_CommitOnceLast ==
  /\ \A i \in 1 .. Len(stack) : SelectSeq(stack[i].ops, IsCommit) = << >>
  /\ last.result = "True" =>
       LET n == Len(last.ops)
       IN /\ Len(SelectSeq(last.ops, IsCommit)) = 1
          /\ last.ops[n] = "commit"
          /\ last.ops[n - 1] = "update_timestamp_books"
          /\ last.ops[n - 2] = "update_timestamp_annotations"
          /\ Len(SelectSeq(last.ops, IsAddAnnotation)) = NumHighlights(last.data)
          /\ Len(SelectSeq(last.ops, IsAddBook)) = Len(last.data)
  /\ last.result = "ValueError" =>
       /\ SelectSeq(last.ops, IsCommit) = << >>
       /\ last.commits = 0
       /\ Len(SelectSeq(last.ops, IsAddAnnotation)) = last.hi
       /\ \A k \in 1 .. last.hi :
            \E r \in annDb :
              Fingerprint(r) =
                Fingerprint(MakeAnnotation(CurBook(last).id,
                                           CurBook(last).highlights[k]))

C22_Witness ==
  /\ last.result = "ValueError"
  /\ stack = << >>
  /\ imports = 2
  /\ last.hi = 1
  /\ last.ops[Len(last.ops)] = "update_book_last_annotation"
  /\ \E r \in annDb : r.annotation_id = 1 /\ r.book_id = 1
  /\ \E r \in annDb : r.annotation_id = 3

\* C23: updateCalibreGUIView, entered after the report of move_annotations,
\* eventually returns, having sent 'refreshdb:' exactly once and closed the
\* connection, and nothing is sent before the RC thread has reported done.
C23_RefreshReturns ==
  /\ (pc = "done") ~> (pc = "idle" /\ rc.sent = 1 /\ rc.closed)
  /\ [](rc.sent > 0 => rc.done)

\* the ids of the books whose field holds a container, in library order
RECURSIVE AnnotatedFrom(_, _)
AnnotatedFrom(i, field) ==
  IF i > NumBooks THEN << >>
  ELSE (IF HasContainer(lib[i][field]) THEN <<i>> ELSE << >>)
         \o AnnotatedFrom(i + 1, field)

\* C24: for a non-empty field name existing_annotations returns, with
\* return_all, exactly the ids of the books whose field holds a
\* user_annotations div, in library order, and without return_all the first
\* of them only (the empty list when there is none).
C24_ExistingAnnotations ==
  (found.called /\ found.field # "") =>
    /\ ~found.result.raised
    /\ ~found.result.none
    /\ found.result.map =
         IF found.return_all THEN AnnotatedFrom(1, found.field)
         ELSE IF AnnotatedFrom(1, found.field) = << >> THEN << >>
         ELSE <<Head(AnnotatedFrom(1, found.field))>>

ClippingsBooks(title) == {e \in entries : e.title = title /\ e.clippings}

\* C25: get_clippings_cid is find-or-create: a call whose title has a
\* Clippings book returns its id and creates nothing, any other call creates
\* exactly one entry and returns its id, never None; afterwards the library
\* holds exactly one Clippings book of the title and every call with the
\* title returned its id.
C25_FindOrCreate ==
  [][Len(cids') = Len(cids) + 1 =>
       LET call == cids'[Len(cids')]
       IN /\ call.cid # 0
          /\ IF ClippingsBooks(call.title) # {}
             THEN /\ entries' = entries
                  /\ \E e \in ClippingsBooks(call.title) : e.id = call.cid
             ELSE /\ Cardinality(entries') = Cardinality(entries) + 1
                  /\ \E e \in entries' \ entries :
                       e.id = call.cid /\ e.title = call.title /\ e.clippings
          /\ \A i \in 1 .. Len(cids') :
               cids'[i].title = call.title =>
                 {e \in entries' : e.title = call.title /\ e.clippings} =
                   {[id |-> cids'[i].cid, title |-> call.title, clippings |-> TRUE]}]_vars

\* C26: during move_annotations the value requested from the progress bar
\* (set_value(1), then one more per increment) never exceeds the maximum
\* given to set_maximum, the size of the batch, and at the end of the batch
\* it is the number of books modified.
C26_ProgressWithinMaximum ==
  /\ pc \in {"loop", "done", "raised"} => pbValue <= pbMax
  /\ pc = "done" => pbValue = Cardinality(Modified)

====
